---- MODULE Spec2Model ----
(***************************************************************************)
(* The rooms REST service (/habitaciones) in its two deployments: the      *)
(* strict one (validation, existence and uniqueness pre-checks) and the    *)
(* lenient one (habitaciones.js, every input forwarded to the store).      *)
(* The store is the remote table "habitaciones"; every call a handler      *)
(* awaits is one atomic step at the store, and the code a handler runs     *)
(* between two awaits is atomic (one JavaScript event loop).               *)
(***************************************************************************)
EXTENDS Integers, Sequences, FiniteSets

\* ------------------------------------------------------------------ bounds
\* Rows the table may ever be given (ids FirstId .. FirstId + MaxRows - 1).
MaxRows == 2
\* The value of the table's id sequence when the service starts.
FirstId == 9
\* Requests that may be in flight at once in the concurrent workload.
MaxInFlight == 2

\* ------------------------------------------------------- JavaScript values
\* A JSON / JavaScript value: its typeof tag t, its number n, its string s
\* (a sequence of characters).  Booleans keep their truth value in n.
Undefined == [t |-> "undefined", n |-> 0, s |-> <<>>]
Null == [t |-> "null", n |-> 0, s |-> <<>>]
Num(k) == [t |-> "number", n |-> k, s |-> <<>>]
Str(chars) == [t |-> "string", n |-> 0, s |-> chars]
Bool(b) == [t |-> "boolean", n |-> IF b THEN 1 ELSE 0, s |-> <<>>]

\* The result of a numeric conversion: NaN, or the number n.
NaN == [nan |-> TRUE, n |-> 0]
Number(k) == [nan |-> FALSE, n |-> k]

Digits == <<"0", "1", "2", "3", "4", "5", "6", "7", "8", "9">>
IsDigit(c) == \E i \in 1..10 : Digits[i] = c
DigitVal(c) == (CHOOSE i \in 1..10 : Digits[i] = c) - 1

\* The longest prefix of s made of decimal digits.
RECURSIVE DigitPrefix(_)
DigitPrefix(s) ==
    IF s = <<>> \/ ~IsDigit(Head(s)) THEN <<>>
    ELSE <<Head(s)>> \o DigitPrefix(Tail(s))

\* The value of a sequence of decimal digits.
RECURSIVE DigitsValue(_)
DigitsValue(d) ==
    IF d = <<>> THEN 0
    ELSE 10 * DigitsValue(SubSeq(d, 1, Len(d) - 1)) + DigitVal(d[Len(d)])

\* The decimal text of a natural number, as String(n) gives it.
RECURSIVE ToString(_)
ToString(k) ==
    IF k < 10 THEN <<Digits[k + 1]>>
    ELSE ToString(k \div 10) \o <<Digits[(k % 10) + 1]>>

HasSign(s) == s # <<>> /\ Head(s) \in {"-", "+"}

\* parseInt(s, 10): an optional sign, then the longest run of digits; what
\* follows the digits is ignored, and no digit at all gives NaN.
parseInt(s) ==
    LET body == IF HasSign(s) THEN Tail(s) ELSE s
        d == DigitPrefix(body)
    IN  IF d = <<>> THEN NaN
        ELSE Number(IF Head(s) = "-" THEN 0 - DigitsValue(d) ELSE DigitsValue(d))

\* A decimal integer literal and nothing else: an optional sign, then digits.
IsNumeral(s) ==
    LET body == IF HasSign(s) THEN Tail(s) ELSE s
    IN  body # <<>> /\ DigitPrefix(body) = body

\* Number(s) of a string: the whole string must be a numeral ("" is 0).
StringToNumber(s) ==
    IF s = <<>> THEN Number(0)
    ELSE IF IsNumeral(s) THEN parseInt(s) ELSE NaN

\* The ToNumber coercion isNaN and <= apply to their operand.
ToNumber(v) ==
    CASE v.t = "undefined" -> NaN
      [] v.t = "null" -> Number(0)
      [] v.t = "string" -> StringToNumber(v.s)
      [] OTHER -> Number(v.n)

isNaN(v) == ToNumber(v).nan

\* v <= 0: false when v converts to NaN.
LeqZero(v) == ~ToNumber(v).nan /\ ToNumber(v).n <= 0

\* !!v
Truthy(v) ==
    CASE v.t = "number" -> v.n # 0
      [] v.t = "string" -> v.s # <<>>
      [] v.t = "boolean" -> v.n = 1
      [] OTHER -> FALSE

typeof(v) == IF v.t = "null" THEN "object" ELSE v.t

\* ---------------------------------------------------------------- requests
\* A request body after express.json(): the five fields the handlers
\* destructure; a key the body does not carry reads as undefined.
Body(n, t, c, p, e) ==
    [num_habi |-> n, tipo |-> t, capacidad |-> c, precio |-> p, estado |-> e]

NoBody == Body(Undefined, Undefined, Undefined, Undefined, Undefined)

Doble == Str(<<"d", "o", "b", "l", "e">>)

\* The bodies of the "seq" workload: one that creates room 1 with estado
\* false, one that creates room 2, one without num_habi, one without estado.
Bodies ==
    { Body(Num(1), Doble, Num(2), Num(500), Bool(FALSE)),
      Body(Num(2), Doble, Num(2), Num(500), Bool(TRUE)),
      Body(Undefined, Doble, Num(2), Num(500), Bool(TRUE)),
      Body(Num(1), Doble, Num(2), Num(500), Undefined) }

\* The PATCH bodies of the "patch" workload: every field absent, valid or
\* invalid.
PatchBodies ==
    { Body(n, t, c, p, e) :
        n \in {Undefined, Num(1), Str(<<"x">>)},
        t \in {Undefined, Doble, Num(7)},
        c \in {Undefined, Num(2), Num(0 - 1)},
        p \in {Undefined, Num(500), Num(0 - 10)},
        e \in {Undefined, Bool(FALSE), Str(<<"s", "i">>)} }

\* The body the "patch" workload sends to the other routes.
OneBody == { Body(Num(1), Doble, Num(2), Num(500), Bool(TRUE)) }

\* The bodies of the "conc" workload, and those sent to the lenient
\* deployment, which reads none of their fields.
FewBodies ==
    { Body(Num(1), Doble, Num(2), Num(500), e) : e \in {Bool(FALSE), Bool(TRUE)} }

\* The ids the table hands out within the bounds.
RowIds == FirstId .. (FirstId + MaxRows - 1)

\* The :id path parameters clients send: the text of every id, the text of
\* an id followed by a letter, zero, a negative number, a word.
IdParams ==
    { ToString(i) : i \in RowIds }
        \cup { ToString(FirstId) \o <<"a">>, <<"0">>, <<"-", "1">>, <<"a", "b", "c">> }

\* ------------------------------------------------------------------- store
\* A row of the table: the id the table assigned and the five columns.  A
\* key left out of the JSON payload (undefined) is stored as null.
Column(v) == IF v.t = "undefined" THEN Null ELSE v

Row(id, b) ==
    [habitacion_id |-> id,
     num_habi |-> Column(b.num_habi),
     tipo |-> Column(b.tipo),
     capacidad |-> Column(b.capacidad),
     precio |-> Column(b.precio),
     estado |-> Column(b.estado)]

\* The messages of the store's errors.
StoreDown == "store unavailable"
NotOneRow == "PGRST116: JSON object requested, multiple (or no) rows returned"
BadInteger == "22P02: invalid input syntax for type integer"

\* A store answer: the rows it returns, its error message ("" for none), and
\* the table after the call.
Answer(data, error, rs) == [data |-> data, error |-> error, rows |-> rs]

\* .maybeSingle() in the place of .single(): no row is no error.
singleOrNone(found, rs) ==
    IF Cardinality(found) <= 1 THEN Answer(found, "", rs) ELSE Answer({}, NotOneRow, rs)

\* .single(): exactly one row, or an error and no data.
single(found, rs) ==
    IF Cardinality(found) = 1 THEN Answer(found, "", rs) ELSE Answer({}, NotOneRow, rs)

\* The filter put on the column num_habi instead of habitacion_id.
eqIdOnNumHabi(rs, id) == { r \in rs : r.num_habi = Num(id) }

\* .eq('habitacion_id', id) with the number the strict handlers parsed.
eqId(rs, id) == { r \in rs : r.habitacion_id = id }

\* .eq('habitacion_id', id) with the raw path text of the lenient handlers:
\* the store reads the text as an integer and refuses anything else.
eqIdText(rs, idp) == { r \in rs : IsNumeral(idp) /\ r.habitacion_id = parseInt(idp).n }

\* .eq('num_habi', num_habi)
eqNumHabi(rs, v) == { r \in rs : r.num_habi = v }

\* .update({...}): the payload's keys that are not undefined replace the
\* row's columns.
updated(r, b) ==
    [habitacion_id |-> r.habitacion_id,
     num_habi |-> IF b.num_habi.t = "undefined" THEN r.num_habi ELSE b.num_habi,
     tipo |-> IF b.tipo.t = "undefined" THEN r.tipo ELSE b.tipo,
     capacidad |-> IF b.capacidad.t = "undefined" THEN r.capacidad ELSE b.capacidad,
     precio |-> IF b.precio.t = "undefined" THEN r.precio ELSE b.precio,
     estado |-> IF b.estado.t = "undefined" THEN r.estado ELSE b.estado]

\* The rows an update touches: none when the payload has no key at all.
touched(found, b) == IF b = NoBody THEN {} ELSE found

\* .update(b).eq(...).select('*').single(): the rows found are rewritten and
\* the single rewritten row is returned; with none (or several) the answer
\* is the error of .single().
updateSingle(rs, found, b) ==
    single({ updated(r, b) : r \in touched(found, b) },
           (rs \ touched(found, b)) \cup { updated(r, b) : r \in touched(found, b) })

\* A delete that is built but never sent: the table keeps its rows.
deleteNothing(rs, found) == Answer({}, "", rs)

\* A delete that ends in .select().single(): deleting no row is an error.
deleteSingle(rs, found) == single(found, rs \ found)

\* .delete().eq(...): the rows found leave the table; finding none is no error.
deleteRows(rs, found) == Answer({}, "", rs \ found)

\* An insert into a table with a unique constraint on num_habi.
insertUnique(rs, id, b) ==
    IF \E r \in rs : r.num_habi = Column(b.num_habi)
    THEN Answer({}, "23505: duplicate key value violates unique constraint", rs)
    ELSE Answer({ Row(id, b) }, "", rs \cup { Row(id, b) })

\* .insert([b]).select('*').single(): the new row takes the next id of the
\* sequence and is returned.
insertSingle(rs, id, b) == Answer({ Row(id, b) }, "", rs \cup { Row(id, b) })

\* A query whose id filter is path text that is no integer: the store
\* refuses it; otherwise the answer to the query.
withIdText(idp, answer, rs) ==
    IF IsNumeral(idp) THEN answer ELSE Answer({}, BadInteger, rs)

\* ------------------------------------------------------------------- state
VARIABLES
    variant,  \* which deployment serves: "strict" or "lenient"
    load,     \* what clients send: "seq", "conc" or "patch" (see Inputs)
    rows,     \* the table habitaciones
    nextId,   \* the next value of the table's id sequence
    pc,       \* per request slot: where the handler of its request stands
    req,      \* per request slot: the request and the handler's locals
    resp,     \* the last response sent
    prev      \* the response sent before it

vars == <<variant, load, rows, nextId, pc, req, resp, prev>>

Procs == 1 .. MaxInFlight

\* A request in a slot: the method, the :id text, the id the handler parsed,
\* the body, and what its store calls met so far (their number, whether one
\* failed, how many rows of the table the filter of the first one matched).
Request(op, idp, id, body, calls, failed, matched) ==
    [op |-> op, idp |-> idp, id |-> id, body |-> body,
     calls |-> calls, failed |-> failed, matched |-> matched]

NoRequest == Request("none", <<>>, 0, NoBody, 0, FALSE, 0)

\* A response: the method and :id text of its request, the status, the
\* error message of the JSON body ("" on success), the rows of the JSON
\* body, and the request's store calls.
Response(r, status, error, data, calls, failed, matched) ==
    [op |-> r.op, idp |-> r.idp, status |-> status, error |-> error,
     data |-> data, calls |-> calls, failed |-> failed, matched |-> matched]

NoResponse == Response(NoRequest, 0, "", {}, 0, FALSE, 0)

\* What is kept of the response before the last: a response that reported a
\* change of the table (201, 204) is kept, any other is not.
Summary(r) ==
    IF r.status \in {201, 204}
    THEN [op |-> r.op, idp |-> r.idp, status |-> r.status, data |-> r.data]
    ELSE [op |-> "none", idp |-> <<>>, status |-> 0, data |-> {}]

Start(l) ==
    /\ variant \in {"strict", "lenient"}
    /\ load = l
    /\ rows = {}
    /\ nextId = FirstId
    /\ pc = [p \in Procs |-> "idle"]
    /\ req = [p \in Procs |-> NoRequest]
    /\ resp = NoResponse
    /\ prev = Summary(NoResponse)

Init == Start("seq")

ConcInit == Start("conc")

PatchInit == Start("patch")

\* ---------------------------------------------------------------- workload
Busy == { p \in Procs : pc[p] # "idle" }

\* A new request is taken when the workload allows one more in flight: the
\* "conc" workload overlaps requests, the others send one at a time.
Admit == load = "conc" \/ Busy = {}

\* A request takes the lowest free slot.
Free(p) == Admit /\ pc[p] = "idle" /\ \A q \in Procs : q < p => pc[q] # "idle"

\* The inserts the requests in flight may still make.
PendingInserts == Cardinality({ p \in Procs : req[p].op = "POST" })

\* The bodies and :id texts each workload sends.
BodiesOf(op) ==
    CASE load = "patch" /\ op = "PATCH" -> PatchBodies
      [] load = "patch" /\ op # "PATCH" -> OneBody
      [] load = "seq" /\ variant = "strict" -> Bodies
      [] OTHER -> FewBodies

IdsOf ==
    CASE load = "seq" -> IdParams
      [] load = "conc" -> { ToString(i) : i \in RowIds }
      [] OTHER -> { ToString(FirstId) }

\* The routes of each deployment.
Routes ==
    IF variant = "strict" THEN {"LIST", "GET", "POST", "PATCH", "DELETE"}
    ELSE {"LIST", "GET", "POST", "PUT", "DELETE"}

\* The store may fail any call.
Outcomes == BOOLEAN

\* ---------------------------------------------------------------- messages
MsgId == "ID invalido. Debe ser un numero entero positivo."
MsgNumHabi == "Numero de habitacion invalida! Debe ser un numero entero positivo."
MsgTipo == "El tipo debe ser una cadena de texto."
MsgCapacidad == "Capacidad invalida. Debe ser un numero entero positivo."
MsgPrecio == "Precio invalido. Debe ser un numero entero positivo."
MsgEstado == "El estado debe ser un valor booleano (true o false)."
MsgCampos == "Todos los campos son obligatorios."
MsgExiste == "El numero de habitacion ya existe."
MsgNoEncontrada == "Habitacion no encontrada"
MsgVacia == "No hay habitaciones registradas"

\* ------------------------------------------------------- handler decisions
\* isNaN(id) || id <= 0
InvalidId(id) == id.nan \/ id.n <= 0

\* The required-field check with !estado in the place of estado === undefined.
MissingFieldFalsy(b) ==
    \/ ~Truthy(b.num_habi)
    \/ ~Truthy(b.tipo)
    \/ ~Truthy(b.capacidad)
    \/ ~Truthy(b.precio)
    \/ ~Truthy(b.estado)

\* !num_habi || !tipo || !capacidad || !precio || estado === undefined
MissingField(b) ==
    \/ ~Truthy(b.num_habi)
    \/ ~Truthy(b.tipo)
    \/ ~Truthy(b.capacidad)
    \/ ~Truthy(b.precio)
    \/ b.estado.t = "undefined"

\* The field checks of PATCH in their order: the message of the first that
\* fails, "" when none does.
PatchError(b) ==
    IF isNaN(b.num_habi) \/ LeqZero(b.num_habi) THEN MsgNumHabi
    ELSE IF Truthy(b.tipo) /\ typeof(b.tipo) # "string" THEN MsgTipo
    ELSE IF Truthy(b.capacidad) /\ (isNaN(b.capacidad) \/ LeqZero(b.capacidad))
        THEN MsgCapacidad
    ELSE IF Truthy(b.precio) /\ (isNaN(b.precio) \/ LeqZero(b.precio)) THEN MsgPrecio
    ELSE IF b.estado.t # "undefined" /\ typeof(b.estado) # "boolean" THEN MsgEstado
    ELSE ""

\* A store call on table rs: the store's failure, which leaves the table as
\* it is, or the answer to the query.
Call(fail, answer, rs) == IF fail THEN Answer({}, StoreDown, rs) ELSE answer

\* The handler in slot p sends its response and ends.
Send(p, r) ==
    /\ resp' = r
    /\ prev' = Summary(resp)
    /\ pc' = [pc EXCEPT ![p] = "idle"]
    /\ req' = [req EXCEPT ![p] = NoRequest]

\* The handler in slot p suspends at the await of its second store call.
Suspend(p, at, r) ==
    /\ pc' = [pc EXCEPT ![p] = at]
    /\ req' = [req EXCEPT ![p] = r]
    /\ UNCHANGED <<resp, prev>>

\* The handler of route op is about to run in slot p.
At(p, v, op) == variant = v /\ pc[p] = "start" /\ req[p].op = op

\* ----------------------------------------------------------------- arrival
\* A request arrives and is routed to its handler.
Receive ==
    /\ \E p \in Procs, op \in Routes :
        /\ Free(p)
        /\ op = "POST" => nextId + PendingInserts < FirstId + MaxRows
        /\ \E idp \in (IF op \in {"LIST", "POST"} THEN {<<>>} ELSE IdsOf),
              b \in (IF op \in {"POST", "PATCH", "PUT"} THEN BodiesOf(op) ELSE {NoBody}) :
            /\ pc' = [pc EXCEPT ![p] = "start"]
            /\ req' = [req EXCEPT ![p] = Request(op, idp, 0, b, 0, FALSE, 0)]
    /\ UNCHANGED <<variant, load, rows, nextId, resp, prev>>

\* ---------------------------------------------------- the strict handlers
\* GET /habitaciones
GetAllStrict ==
    /\ \E p \in Procs, fail \in Outcomes :
        /\ At(p, "strict", "LIST")
        /\ LET a == Call(fail, Answer(rows, "", rows), rows)
               n == Cardinality(rows)
           IN  Send(p, IF a.error # "" THEN Response(req[p], 500, a.error, {}, 1, fail, n)
                       ELSE IF a.data = {} THEN Response(req[p], 404, MsgVacia, {}, 1, fail, n)
                       ELSE Response(req[p], 200, "", a.data, 1, fail, n))
    /\ UNCHANGED <<variant, load, rows, nextId>>

\* GET /habitaciones/:id
GetByIdStrict ==
    /\ \E p \in Procs :
        /\ At(p, "strict", "GET")
        /\ LET id == parseInt(req[p].idp) IN
           IF InvalidId(id)
           THEN Send(p, Response(req[p], 400, MsgId, {}, 0, FALSE, 0))
           ELSE \E fail \in Outcomes :
               LET found == eqId(rows, id.n)
                   a == Call(fail, single(found, rows), rows)
                   n == Cardinality(found)
               IN  Send(p, IF a.error # "" \/ a.data = {}
                             THEN Response(req[p], 404, MsgNoEncontrada, {}, 1, fail, n)
                           ELSE Response(req[p], 200, "", a.data, 1, fail, n))
    /\ UNCHANGED <<variant, load, rows, nextId>>

\* POST /habitaciones, to the await of the insert: the required-field check
\* and the select of existeHabitacion, whose error is not read.
PostStrictCheck ==
    /\ \E p \in Procs :
        /\ At(p, "strict", "POST")
        /\ LET b == req[p].body IN
           IF MissingField(b)
           THEN Send(p, Response(req[p], 400, MsgCampos, {}, 0, FALSE, 0))
           ELSE \E fail \in Outcomes :
               LET found == eqNumHabi(rows, b.num_habi)
                   existeHabitacion == Call(fail, single(found, rows), rows).data
                   n == Cardinality(found)
               IN  IF existeHabitacion # {}
                   THEN Send(p, Response(req[p], 409, MsgExiste, {}, 1, fail, n))
                   ELSE Suspend(p, "post_insert", Request("POST", <<>>, 0, b, 1, fail, n))
    /\ UNCHANGED <<variant, load, rows, nextId>>

\* POST /habitaciones, from the insert on.
PostStrictInsert ==
    /\ \E p \in Procs, fail \in Outcomes :
        /\ pc[p] = "post_insert"
        /\ LET r == req[p]
               a == Call(fail, insertSingle(rows, nextId, r.body), rows)
               failed == r.failed \/ fail
           IN  /\ rows' = a.rows
               /\ nextId' = IF a.error = "" THEN nextId + 1 ELSE nextId
               /\ Send(p, IF a.error # "" THEN Response(r, 500, a.error, {}, 2, failed, r.matched)
                          ELSE Response(r, 201, "", a.data, 2, failed, r.matched))
    /\ UNCHANGED <<variant, load>>

\* PATCH /habitaciones/:id, to the await of the update: the id check, the
\* field checks and the select of habitacionExistente, whose error is not read.
PatchStrictCheck ==
    /\ \E p \in Procs :
        /\ At(p, "strict", "PATCH")
        /\ LET id == parseInt(req[p].idp)
               b == req[p].body
           IN
           IF InvalidId(id)
           THEN Send(p, Response(req[p], 400, MsgId, {}, 0, FALSE, 0))
           ELSE IF PatchError(b) # ""
           THEN Send(p, Response(req[p], 400, PatchError(b), {}, 0, FALSE, 0))
           ELSE \E fail \in Outcomes :
               LET found == eqId(rows, id.n)
                   habitacionExistente == Call(fail, single(found, rows), rows).data
                   n == Cardinality(found)
               IN  IF habitacionExistente = {}
                   THEN Send(p, Response(req[p], 404, MsgNoEncontrada, {}, 1, fail, n))
                   ELSE Suspend(p, "patch_update",
                                Request("PATCH", req[p].idp, id.n, b, 1, fail, n))
    /\ UNCHANGED <<variant, load, rows, nextId>>

\* PATCH /habitaciones/:id, from the update on.
PatchStrictUpdate ==
    /\ \E p \in Procs, fail \in Outcomes :
        /\ pc[p] = "patch_update"
        /\ LET r == req[p]
               a == Call(fail, updateSingle(rows, eqId(rows, r.id), r.body), rows)
               failed == r.failed \/ fail
           IN  /\ rows' = a.rows
               /\ Send(p, IF a.error # "" THEN Response(r, 500, a.error, {}, 2, failed, r.matched)
                          ELSE Response(r, 200, "", a.data, 2, failed, r.matched))
    /\ UNCHANGED <<variant, load, nextId>>

\* DELETE /habitaciones/:id, to the await of the delete.
DeleteStrictCheck ==
    /\ \E p \in Procs :
        /\ At(p, "strict", "DELETE")
        /\ LET id == parseInt(req[p].idp) IN
           IF InvalidId(id)
           THEN Send(p, Response(req[p], 400, MsgId, {}, 0, FALSE, 0))
           ELSE \E fail \in Outcomes :
               LET found == eqId(rows, id.n)
                   habitacionExistente == Call(fail, single(found, rows), rows).data
                   n == Cardinality(found)
               IN  IF habitacionExistente = {}
                   THEN Send(p, Response(req[p], 404, MsgNoEncontrada, {}, 1, fail, n))
                   ELSE Suspend(p, "delete_delete",
                                Request("DELETE", req[p].idp, id.n, NoBody, 1, fail, n))
    /\ UNCHANGED <<variant, load, rows, nextId>>

\* DELETE /habitaciones/:id, from the delete on.
DeleteStrictDelete ==
    /\ \E p \in Procs, fail \in Outcomes :
        /\ pc[p] = "delete_delete"
        /\ LET r == req[p]
               a == Call(fail, deleteRows(rows, eqId(rows, r.id)), rows)
               failed == r.failed \/ fail
           IN  /\ rows' = a.rows
               /\ Send(p, IF a.error # "" THEN Response(r, 500, a.error, {}, 2, failed, r.matched)
                          ELSE Response(r, 204, "", {}, 2, failed, r.matched))
    /\ UNCHANGED <<variant, load, nextId>>

\* --------------------------------------------------- the lenient handlers
\* Each awaits one store call, so each runs in one step.
\* GET /habitaciones
GetAllLenient ==
    /\ \E p \in Procs, fail \in Outcomes :
        /\ At(p, "lenient", "LIST")
        /\ LET a == Call(fail, Answer(rows, "", rows), rows)
               n == Cardinality(rows)
           IN  Send(p, IF a.error # "" THEN Response(req[p], 500, a.error, {}, 1, fail, n)
                       ELSE Response(req[p], 200, "", a.data, 1, fail, n))
    /\ UNCHANGED <<variant, load, rows, nextId>>

\* GET /habitaciones/:id
GetByIdLenient ==
    /\ \E p \in Procs, fail \in Outcomes :
        /\ At(p, "lenient", "GET")
        /\ LET idp == req[p].idp
               found == eqIdText(rows, idp)
               a == Call(fail, withIdText(idp, single(found, rows), rows), rows)
               n == Cardinality(found)
           IN  Send(p, IF a.error # ""
                         THEN Response(req[p], 404, MsgNoEncontrada, {}, 1, fail, n)
                       ELSE Response(req[p], 200, "", a.data, 1, fail, n))
    /\ UNCHANGED <<variant, load, rows, nextId>>

\* POST /habitaciones
PostLenient ==
    /\ \E p \in Procs, fail \in Outcomes :
        /\ At(p, "lenient", "POST")
        /\ LET a == Call(fail, insertSingle(rows, nextId, req[p].body), rows)
           IN  /\ rows' = a.rows
               /\ nextId' = IF a.error = "" THEN nextId + 1 ELSE nextId
               /\ Send(p, IF a.error # "" THEN Response(req[p], 500, a.error, {}, 1, fail, 0)
                          ELSE Response(req[p], 201, "", a.data, 1, fail, 0))
    /\ UNCHANGED <<variant, load>>

\* PUT /habitaciones/:id
PutLenient ==
    /\ \E p \in Procs, fail \in Outcomes :
        /\ At(p, "lenient", "PUT")
        /\ LET idp == req[p].idp
               found == eqIdText(rows, idp)
               a == Call(fail, withIdText(idp, updateSingle(rows, found, req[p].body), rows), rows)
               n == Cardinality(found)
           IN  /\ rows' = a.rows
               /\ Send(p, IF a.error # "" THEN Response(req[p], 500, a.error, {}, 1, fail, n)
                          ELSE Response(req[p], 200, "", a.data, 1, fail, n))
    /\ UNCHANGED <<variant, load, nextId>>

\* DELETE /habitaciones/:id
DeleteLenient ==
    /\ \E p \in Procs, fail \in Outcomes :
        /\ At(p, "lenient", "DELETE")
        /\ LET idp == req[p].idp
               found == eqIdText(rows, idp)
               a == Call(fail, withIdText(idp, deleteRows(rows, found), rows), rows)
               n == Cardinality(found)
           IN  /\ rows' = a.rows
               /\ Send(p, IF a.error # "" THEN Response(req[p], 500, a.error, {}, 1, fail, n)
                          ELSE Response(req[p], 204, "", {}, 1, fail, n))
    /\ UNCHANGED <<variant, load, nextId>>

\* ----------------------------------------------------------- specification
Next ==
    \/ Receive
    \/ GetAllStrict
    \/ GetByIdStrict
    \/ PostStrictCheck
    \/ PostStrictInsert
    \/ PatchStrictCheck
    \/ PatchStrictUpdate
    \/ DeleteStrictCheck
    \/ DeleteStrictDelete
    \/ GetAllLenient
    \/ GetByIdLenient
    \/ PostLenient
    \/ PutLenient
    \/ DeleteLenient

\* One request at a time.
Spec == Init /\ [][Next]_vars

\* Requests overlapping, up to MaxInFlight of them.
ConcSpec == ConcInit /\ [][Next]_vars

\* One request at a time, PATCH bodies of every shape.
PatchSpec == PatchInit /\ [][Next]_vars

\* ------------------------------------------------------------- properties
\* The step sends the response of the request in slot p.
Completes(p) == pc[p] # "idle" /\ pc'[p] = "idle"

\* The :id text is a positive integer, and the table holds no row of that id.
PositiveIdText(idp) == IsNumeral(idp) /\ parseInt(idp).n > 0

IdOfNoRow(idp) == PositiveIdText(idp) /\ eqId(rows, parseInt(idp).n) = {}

\* The :id text is zero, negative, or no number.
BadIdText(idp) == ~IsNumeral(idp) \/ parseInt(idp).n <= 0

\* The request of slot p is answered about an id of no row, the store not
\* failing.
AnswersAbsentId(p) ==
    /\ Completes(p)
    /\ req[p].op \in {"GET", "PATCH", "PUT", "DELETE"}
    /\ IdOfNoRow(req[p].idp)
    /\ ~resp'.failed

\* C1 as stated: for every valid positive-integer id that matches no row,
\* the store not failing, GET, PATCH (strict), PUT (lenient) and DELETE
\* (both variants) respond 404, whatever the body.
C1_AbsentIdIs404 ==
    [][\A p \in Procs : AnswersAbsentId(p) => resp'.status = 404]_vars

\* C1 amended: for such an id, GET (both variants) and the strict DELETE
\* respond 404; the strict PATCH responds 400 when its field checks reject
\* the body and 404 when they pass it; the lenient PUT responds 500 with the
\* store's no-row error; the lenient DELETE responds 204.  None changes the
\* table.
C1_AbsentIdByRoute ==
    [][\A p \in Procs : AnswersAbsentId(p) =>
        /\ rows' = rows
        /\ req[p].op = "GET" => resp'.status = 404
        /\ req[p].op = "DELETE" =>
              resp'.status = IF variant = "strict" THEN 404 ELSE 204
        /\ req[p].op = "PATCH" =>
              resp'.status = IF PatchError(req[p].body) # "" THEN 400 ELSE 404
        /\ req[p].op = "PUT" => resp'.status = 500 /\ resp'.error = NotOneRow]_vars

\* A strict PATCH of an id of no row was answered 404 after its existence
\* check found nothing.
C1_Witness ==
    /\ variant = "strict"
    /\ resp.op = "PATCH" /\ resp.status = 404
    /\ PositiveIdText(resp.idp) /\ resp.matched = 0 /\ ~resp.failed

\* The field rules of PATCH as the specification states them: a field that
\* is present must be a positive integer (num_habi), a string (tipo), a
\* positive number (capacidad, precio), a boolean (estado).
PatchFields == {"num_habi", "tipo", "capacidad", "precio", "estado"}

FieldValid(f, v) ==
    CASE f = "tipo" -> v.t = "string"
      [] f = "estado" -> v.t = "boolean"
      [] OTHER -> v.t = "number" /\ v.n > 0

Violations(b) == { f \in PatchFields : b[f].t # "undefined" /\ ~FieldValid(f, b[f]) }

FieldMessage(f) ==
    CASE f = "num_habi" -> MsgNumHabi
      [] f = "tipo" -> MsgTipo
      [] f = "capacidad" -> MsgCapacidad
      [] f = "precio" -> MsgPrecio
      [] OTHER -> MsgEstado

\* C2: a strict PATCH with a valid id whose body violates exactly one field
\* rule is answered 400 with the message of that field, an absent field is
\* no violation, and a body with valid values for a subset of the fields
\* passes validation (it is not answered 400).
C2_PatchFieldRules ==
    [][\A p \in Procs :
        (At(p, "strict", "PATCH") /\ pc'[p] # "start"
            /\ ~InvalidId(parseInt(req[p].idp))) =>
        /\ \A f \in PatchFields : Violations(req[p].body) = {f} =>
              Completes(p) /\ resp'.status = 400 /\ resp'.error = FieldMessage(f)
        /\ Violations(req[p].body) = {} => ~(Completes(p) /\ resp'.status = 400)]_vars

\* C3: in the strict variant a request whose :id is zero, negative or
\* non-numeric is answered 400 without any call to the store: none is
\* suspended at a store call, and the response counts no call.
C3_BadIdNoStoreCall ==
    /\ \A p \in Procs :
          (variant = "strict" /\ pc[p] \notin {"idle", "start"}
              /\ req[p].op \in {"GET", "PATCH", "DELETE"}) => ~BadIdText(req[p].idp)
    /\ (variant = "strict" /\ resp.op \in {"GET", "PATCH", "DELETE"} /\ BadIdText(resp.idp))
          => resp.status = 400 /\ resp.calls = 0

\* C4: in the strict variant a POST with all its fields that follows a POST
\* answered 201 with the same num_habi inserts nothing, so that the table
\* holds exactly one room of that num_habi, and is answered 409 unless a
\* store call of it failed.
C4_SecondPostIs409 ==
    [][\A p \in Procs :
        (/\ variant = "strict"
         /\ Completes(p) /\ req[p].op = "POST"
         /\ ~MissingField(req[p].body)
         /\ resp.op = "POST" /\ resp.status = 201
         /\ \E r \in resp.data : r.num_habi = req[p].body.num_habi) =>
        /\ rows' = rows
        /\ Cardinality(eqNumHabi(rows', req[p].body.num_habi)) = 1
        /\ ~resp'.failed => resp'.status = 409]_vars

\* The id the created row was given, as the text of a path.
CreatedIdText(data) == { ToString(r.habitacion_id) : r \in data }

\* C5: a GET of the habitacion_id a POST just returned with 201, the store
\* not failing, responds 200 with the row the POST returned.
C5_PostThenGet ==
    (/\ prev.op = "POST" /\ prev.status = 201
     /\ resp.op = "GET" /\ resp.idp \in CreatedIdText(prev.data)
     /\ ~resp.failed)
        => resp.status = 200 /\ resp.data = prev.data

\* A GET of the id a POST had just returned was answered with a row whose id
\* has two digits.
C5_Witness ==
    /\ prev.op = "POST" /\ prev.status = 201
    /\ resp.op = "GET" /\ resp.idp \in CreatedIdText(prev.data)
    /\ resp.status = 200 /\ Len(resp.idp) = 2

\* The two :id texts name the same id.
SameId(a, b) ==
    /\ ~parseInt(a).nan /\ ~parseInt(b).nan
    /\ parseInt(a).n = parseInt(b).n

\* C6: in both variants a GET that follows a DELETE answered 204 on the
\* same id responds 404.
C6_DeleteThenGet ==
    (/\ prev.op = "DELETE" /\ prev.status = 204
     /\ resp.op = "GET" /\ SameId(prev.idp, resp.idp))
        => resp.status = 404

\* A DELETE removed a row with 204 and the GET of its id that followed was
\* answered 404 by the store finding no row.
C6_Witness ==
    /\ prev.op = "DELETE" /\ prev.status = 204
    /\ resp.op = "GET" /\ prev.idp = resp.idp
    /\ resp.status = 404 /\ ~resp.failed /\ rows # {}

\* C7: a strict POST whose estado is false and whose other fields are valid
\* and non-empty, with a num_habi the pre-check finds in no row and the store
\* not failing, is answered 201 with the inserted row, estado false.
C7_EstadoFalseCreates ==
    [][\A p \in Procs :
        (/\ variant = "strict"
         /\ Completes(p) /\ req[p].op = "POST"
         /\ req[p].body.estado = Bool(FALSE)
         /\ \A f \in {"num_habi", "capacidad", "precio"} : FieldValid(f, req[p].body[f])
         /\ req[p].body.tipo.t = "string" /\ req[p].body.tipo.s # <<>>
         /\ resp'.matched = 0 /\ ~resp'.failed) =>
        /\ resp'.status = 201
        /\ \A r \in resp'.data : r.estado = Bool(FALSE)
        /\ resp'.data # {} /\ resp'.data \subseteq rows' /\ resp'.data \cap rows = {}]_vars

\* A strict POST was answered 201 with a row whose estado is false.
C7_Witness ==
    /\ variant = "strict"
    /\ resp.op = "POST" /\ resp.status = 201 /\ ~resp.failed
    /\ \E r \in resp.data : r.estado = Bool(FALSE) /\ r \in rows

\* C8: in the strict POST, PATCH and DELETE a store call that fails, the
\* pre-check select included, ends the request with a 500 carrying the
\* store's message: no handler goes on to its insert, update or delete
\* after a failed pre-check, and none answers 404, 409 or a success.
C8_StoreErrorIs500 ==
    /\ \A p \in Procs : pc[p] \notin {"idle", "start"} => ~req[p].failed
    /\ (variant = "strict" /\ resp.op \in {"POST", "PATCH", "DELETE"} /\ resp.failed)
          => resp.status = 500 /\ resp.error = StoreDown

\* C9: once the pre-check of a strict POST has found no row, its insert is
\* made whatever the table holds by then: the request ends with 201 and one
\* more row, or with the 500 of a store that failed the insert.
C9_InsertIgnoresTable ==
    [][\A p \in Procs :
        (pc[p] = "post_insert" /\ Completes(p)) =>
        \/ /\ resp'.status = 201
           /\ resp'.data # {} /\ resp'.data \subseteq rows' /\ resp'.data \cap rows = {}
        \/ /\ resp'.status = 500 /\ resp'.error = StoreDown
           /\ rows' = rows]_vars

\* Two POSTs of the same num_habi were both answered 201, the pre-check of
\* the second having found no row, and the table holds both rows.
C9_Witness ==
    /\ variant = "strict"
    /\ prev.op = "POST" /\ prev.status = 201
    /\ resp.op = "POST" /\ resp.status = 201
    /\ resp.matched = 0 /\ ~resp.failed
    /\ \E a \in prev.data, b \in resp.data :
          /\ a.num_habi = b.num_habi /\ a.habitacion_id # b.habitacion_id
          /\ {a, b} \subseteq rows

\* The update or delete of slot p runs on a row that is no longer there.
RowGone(p) ==
    /\ pc[p] \in {"patch_update", "delete_delete"}
    /\ Completes(p)
    /\ eqId(rows, req[p].id) = {}

\* C10 as stated: the store not failing, a PATCH or DELETE whose existence
\* check passed is never answered 500 or 204 for a row a concurrent DELETE
\* removed before its update or delete ran.
C10_NoOtherRace ==
    [][\A p \in Procs :
        (RowGone(p) /\ ~resp'.failed) => resp'.status \notin {500, 204}]_vars

\* C10 amended: the create race is not the only one.  The store not failing,
\* a strict PATCH whose existence check passed is answered 500 with the
\* store's no-row error when its row was removed before the update ran, and
\* 200 with the updated row otherwise; a strict DELETE whose existence check
\* passed is answered 204 whether or not its row is still there.
C10_CheckThenActRaces ==
    [][\A p \in Procs :
        (Completes(p) /\ pc[p] \in {"patch_update", "delete_delete"}
            /\ resp'.error # StoreDown) =>
        /\ pc[p] = "delete_delete" =>
              resp'.status = 204 /\ rows' = rows \ eqId(rows, req[p].id)
        /\ (pc[p] = "patch_update" /\ eqId(rows, req[p].id) = {}) =>
              resp'.status = 500 /\ resp'.error = NotOneRow /\ rows' = rows
        /\ (pc[p] = "patch_update" /\ eqId(rows, req[p].id) # {}) =>
              resp'.status = 200 /\ resp'.data \subseteq rows']_vars

\* A PATCH whose existence check had found its row was answered 500, no store
\* call of it failing, after the DELETE that removed the row was answered 204.
C10_Witness ==
    /\ prev.op = "DELETE" /\ prev.status = 204
    /\ resp.op = "PATCH" /\ resp.status = 500
    /\ resp.matched = 1 /\ ~resp.failed
    /\ SameId(prev.idp, resp.idp)

====
